---------------------------- MODULE Spec2Model ----------------------------
(***************************************************************************)
(* Multi-query retrieval and result fusion of the rag-techniques notebooks *)
(* ("B - Query Translation/1 - Multi-query.ipynb" and "2 - RAG-fusion").   *)
(*                                                                         *)
(* Two entry points are modelled:                                          *)
(*   - a direct call of reciprocal_rank_fusion(results, k) or of           *)
(*     get_unique_union(documents) on arbitrary ranked lists;              *)
(*   - chain_retrieval.invoke(): the generator's text is split into query  *)
(*     variants, retriever.map() runs one retrieval call per variant on a  *)
(*     thread pool and collects the lists, and the combiner is applied     *)
(*     with its default arguments.                                         *)
(*                                                                         *)
(* Fused scores are Python floats in the code; the fusion carries them as  *)
(* exact rationals <<numerator, denominator>> in lowest terms, and         *)
(* float_score gives the double the code computes for one document.        *)
(***************************************************************************)
EXTENDS Integers, Sequences, FiniteSets, TLC

VARIABLES
    entry,      \* "call": the function is called directly; "chain": chain_retrieval.invoke;
                \* "notebook": chain_retrieval.invoke on the Multi-query notebook's text;
                \* "rerank": chain_retrieval.invoke of the Re-ranking notebook;
                \* "setup": the cells of the common setup
    fn,         \* "reciprocal_rank_fusion" or "get_unique_union"
    k,          \* the k argument of reciprocal_rank_fusion
    pc,         \* "call", "invoke", "retrieve", "done", "raised"; "setup", "seed"
    generated,  \* the generator's text (the llm's answer to the prompt)
    queries,    \* the query variants: chain_generate_queries' output
    status,     \* per variant: the state of its retrieval call
    returned,   \* per variant: the list its retrieval call returned
    completed,  \* the variant positions whose calls ended, in completion order
    order,      \* the variant positions whose lists were collected, in collection order
    results,    \* the ranked lists handed to the combiner
    output,     \* the combiner's return value
    error,      \* the exception that left the call or the chain, "none" if none
    answer,     \* what the user typed at the 'Enabled Langsmith tracing? (y/n): ' prompt
    prompts,    \* the prompts shown to the user so far (input, getpass)
    enable_langsmith,   \* the notebook variable of that name
    environ,    \* os.environ, the LANGCHAIN_ keys
    collection, \* the entries of the persisted collection 'rag_techniques'
    seeds,      \* the documents argument of every seed_sample_data call so far
    retriever,  \* the k of the retriever seed_sample_data returned last, 0 if none
    retrieved   \* the list the last retriever.invoke returned

\* the state of the common setup
setupVars == <<answer, prompts, enable_langsmith, environ, collection, seeds, retriever,
               retrieved>>

\* the state of the calls and chains
chainVars == <<fn, k, generated, queries, status, returned, completed, order, results,
               output, error>>

vars == <<entry, fn, k, pc, generated, queries, status, returned, completed, order, results,
          output, error, answer, prompts, enable_langsmith, environ, collection, seeds,
          retriever, retrieved>>

-----------------------------------------------------------------------------
(* Bounds of the model *)

MaxLists == 2   \* ranked lists per direct call
MaxLen == 2     \* documents per ranked list of a direct call
MaxText == 4    \* characters of the generator's text
MaxEntries == 4 \* entries of the collection
MaxK == 2       \* the k of a retriever

(* Program constants *)

DefaultK == 60  \* reciprocal_rank_fusion(results, k=60)
RequestedFusion == 4    \* the RAG-fusion prompt: "Output (4 queries):"
RequestedUnion == 5     \* the Multi-query prompt: "generate five different versions"
RetrieverK == 1 \* seed_sample_data(documents, k=1): search_kwargs={"k": k}

-----------------------------------------------------------------------------
(* Documents: page_content and metadata, the metadata a dict in insertion  *)
(* order (a sequence of <<key, value>> pairs with distinct keys).          *)

Document(content, meta) == [page_content |-> content, metadata |-> meta]

DocA == Document("A", << <<"source", "u">>, <<"page", "1">> >>)
\* DocA's content and metadata pairs, the keys inserted in the other order
DocAr == Document("A", << <<"page", "1">>, <<"source", "u">> >>)
\* differs from DocA in content only
DocB == Document("B", << <<"source", "u">>, <<"page", "1">> >>)

Docs == {DocA, DocAr, DocB}

\* two more documents, for the lists [[A, B, C], [B, C, D]]
DocC == Document("C", << <<"source", "u">>, <<"page", "1">> >>)
DocD == Document("D", << <<"source", "u">>, <<"page", "1">> >>)

\* a metadata value that json cannot write (an object of some class)
Unserializable == "<object>"
DocU == Document("U", << <<"source", Unserializable>> >>)

\* The metadata as a mapping: the set of its key/value pairs.
MetaPairs(doc) == {doc.metadata[i] : i \in 1..Len(doc.metadata)}

\* Same content and same source metadata, whatever the insertion order.
SameDocument(d1, d2) ==
    /\ d1.page_content = d2.page_content
    /\ MetaPairs(d1) = MetaPairs(d2)

-----------------------------------------------------------------------------
(* langchain.load dumps / loads: the JSON text of a Document, here a       *)
(* sequence of tokens.  json.dumps writes a dict's items in insertion      *)
(* order (no sort_keys).                                                   *)

\* json.dumps(obj, default=default): a value json cannot write is written
\* as a "not_implemented" object, without an error
default(value) == IF value = Unserializable THEN "not_implemented" ELSE value

RECURSIVE MetaTokens(_)
MetaTokens(meta) ==
    IF meta = <<>> THEN <<>>
    ELSE <<Head(meta)[1], ":", default(Head(meta)[2])>> \o MetaTokens(Tail(meta))

dumps(doc) ==
    <<"{", "metadata", "{">> \o MetaTokens(doc.metadata)
        \o <<"}", "page_content", doc.page_content, "}">>

\* The metadata items between "{" (token 3) and the "}" that closes them.
RECURSIVE ParseMeta(_, _)
ParseMeta(s, i) ==
    IF s[i] = "}" THEN <<>>
    ELSE << <<s[i], s[i + 2]>> >> \o ParseMeta(s, i + 3)

loads(s) ==
    LET meta == ParseMeta(s, 4)
    IN  Document(s[4 + 3 * Len(meta) + 2], meta)

\* loads raises NotImplementedError on a "not_implemented" object
loads_raises(s) ==
    \E i \in 1..Len(ParseMeta(s, 4)) : ParseMeta(s, 4)[i][2] = "not_implemented"

-----------------------------------------------------------------------------
(* Exact rationals for the scores *)

Abs(n) == IF n < 0 THEN -n ELSE n

RECURSIVE GCD(_, _)
GCD(a, b) == IF b = 0 THEN a ELSE GCD(b, a % b)

\* n/d in lowest terms with a positive denominator (d # 0)
Rat(n, d) ==
    LET g == GCD(Abs(n), Abs(d))
        s == IF d < 0 THEN -1 ELSE 1
    IN  <<(s * n) \div g, (s * d) \div g>>

Zero == Rat(0, 1)

\* the least common denominator of p and q
CommonDen(p, q) == (p[2] \div GCD(p[2], q[2])) * q[2]

\* the numerator of p over the denominator d, a multiple of p's
NumOver(p, d) == p[1] * (d \div p[2])

RatAdd(p, q) ==
    LET d == CommonDen(p, q) IN Rat(NumOver(p, d) + NumOver(q, d), d)
RatLess(p, q) ==
    LET d == CommonDen(p, q) IN NumOver(p, d) < NumOver(q, d)

\* n times q, for an integer n
RatTimes(n, q) == Rat(n * q[1], q[2])

-----------------------------------------------------------------------------
(* reciprocal_rank_fusion.  fused_scores is a dict, which iterates in      *)
(* insertion order: a sequence of [key, score] with distinct keys.         *)

HasKey(fused, key) == \E i \in 1..Len(fused) : fused[i].key = key

\* a list of pairs in place of the dict: every occurrence gets its own entry
SetDefaultAlways(fused, key) == Append(fused, [key |-> key, score |-> Zero])

\* if doc_str not in fused_scores: fused_scores[doc_str] = 0
SetDefault(fused, key) ==
    IF HasKey(fused, key) THEN fused
    ELSE Append(fused, [key |-> key, score |-> Zero])

\* the rank counted from one
DivisorOneBased(rank, kv) == rank + 1 + kv

\* (rank + k)
Divisor(rank, kv) == rank + kv

\* 1 / (rank + 1): the constant k left out
ContributionRankOnly(rank, kv) == Rat(1, rank + 1)

\* 1 / (rank + k), rank + k # 0
Contribution(rank, kv) == Rat(1, Divisor(rank, kv))

\* = in place of +=: the last contribution replaces the sum
AddScoreAssign(fused, key, c) ==
    [i \in 1..Len(fused) |->
        IF fused[i].key = key THEN [key |-> key, score |-> c] ELSE fused[i]]

\* the larger of the previous score and c
AddScoreMax(fused, key, c) ==
    [i \in 1..Len(fused) |->
        IF fused[i].key = key /\ RatLess(fused[i].score, c)
        THEN [key |-> key, score |-> c]
        ELSE fused[i]]

\* fused_scores[doc_str] += c
AddScore(fused, key, c) ==
    [i \in 1..Len(fused) |->
        IF fused[i].key = key
        THEN [key |-> key, score |-> RatAdd(fused[i].score, c)]
        ELSE fused[i]]

\* for rank, doc in enumerate(docs): ...   (st.err is raised by the division)
RECURSIVE ScoreDocs(_, _, _, _)
ScoreDocs(st, docs, rank, kv) ==
    IF st.err # "none" \/ rank >= Len(docs) THEN st
    ELSE LET doc_str == dumps(docs[rank + 1])
             withKey == SetDefault(st.fused, doc_str)
         IN  IF Divisor(rank, kv) = 0
             THEN [err |-> "ZeroDivisionError", fused |-> withKey]
             ELSE ScoreDocs([err |-> "none",
                             fused |-> AddScore(withKey, doc_str, Contribution(rank, kv))],
                            docs, rank + 1, kv)

\* for docs in results: ...
RECURSIVE ScoreLists(_, _, _, _)
ScoreLists(st, res, i, kv) ==
    IF st.err # "none" \/ i > Len(res) THEN st
    ELSE ScoreLists(ScoreDocs(st, res[i], 0, kv), res, i + 1, kv)

\* a reduction that needs one document at least
fused_scores_nonempty(res, kv) ==
    IF \A i \in 1..Len(res) : res[i] = <<>>
    THEN [err |-> "ValueError", fused |-> <<>>]
    ELSE ScoreLists([err |-> "none", fused |-> <<>>], res, 1, kv)

fused_scores(res, kv) == ScoreLists([err |-> "none", fused |-> <<>>], res, 1, kv)

\* an ascending sort, then reversed: equal scores come out in reverse order
InsertReversingTies(sorted, item) ==
    LET before == {i \in 1..Len(sorted) : RatLess(item.score, sorted[i].score)}
        p == Cardinality(before)
    IN  SubSeq(sorted, 1, p) \o <<item>> \o SubSeq(sorted, p + 1, Len(sorted))

\* the sort without reverse=True: ascending, stable
InsertAscending(sorted, item) ==
    LET before == {i \in 1..Len(sorted) : ~RatLess(item.score, sorted[i].score)}
        p == Cardinality(before)
    IN  SubSeq(sorted, 1, p) \o <<item>> \o SubSeq(sorted, p + 1, Len(sorted))

\* One item into a descending, stable order: behind every item whose score
\* is not less than its own (sorted is descending, so these are a prefix).
Insert(sorted, item) ==
    LET before == {i \in 1..Len(sorted) : ~RatLess(sorted[i].score, item.score)}
        p == Cardinality(before)
    IN  SubSeq(sorted, 1, p) \o <<item>> \o SubSeq(sorted, p + 1, Len(sorted))

\* sorted(fused_scores.items(), key=lambda x: x[1], reverse=True): stable
RECURSIVE SortInto(_, _)
SortInto(sorted, items) ==
    IF items = <<>> THEN sorted
    ELSE SortInto(Insert(sorted, Head(items)), Tail(items))

sorted_reverse(items) == SortInto(<<>>, items)

\* the first pair alone
reranked_results_top(items) ==
    [i \in 1..(IF items = <<>> THEN 0 ELSE 1) |->
        <<loads(items[i].key), items[i].score>>]

\* [(loads(doc), score) for doc, score in sorted(...)]
reranked_results(items) ==
    [i \in 1..Len(items) |-> <<loads(items[i].key), items[i].score>>]

reciprocal_rank_fusion(res, kv) ==
    LET st == fused_scores(res, kv)
    IN  IF st.err # "none" THEN [err |-> st.err, value |-> <<>>]
        ELSE IF \E i \in 1..Len(st.fused) : loads_raises(st.fused[i].key)
        THEN [err |-> "NotImplementedError", value |-> <<>>]
        ELSE [err |-> "none", value |-> reranked_results(sorted_reverse(st.fused))]

-----------------------------------------------------------------------------
(* The floats of the code.  1 / (rank + k) and += work on IEEE 754         *)
(* doubles: a positive double is a record of its 53 significant bits, the  *)
(* first of them 1, and an exponent: 0.b1 b2 ... b53 times 2^exp.  Results *)
(* are rounded to the nearest double, ties to the even one.  float_score   *)
(* is the score of one document as the code computes it; the fusion above  *)
(* carries the exact sums.                                                 *)

Precision == 53

FloatZero == [bits |-> <<>>, exp |-> 0]

\* 2^n modulo d
RECURSIVE Pow2Mod(_, _)
Pow2Mod(n, d) == IF n = 0 THEN 1 % d ELSE (2 * Pow2Mod(n - 1, d)) % d

\* the remainder left after the first n bits of r/d (0 <= r < d)
DivRem(r, d, n) == (r * Pow2Mod(n, d)) % d

\* the first count bits of r/d after the binary point
DivBits(r, d, count) ==
    [i \in 1..count |-> IF 2 * DivRem(r, d, i - 1) >= d THEN 1 ELSE 0]

\* r/d times 2^e with the leading zero bits of r/d moved into the exponent
RECURSIVE Normal(_, _, _)
Normal(r, d, e) == IF 2 * r >= d THEN <<r, e>> ELSE Normal(2 * r, d, e - 1)

\* bits plus one in the last place: the last 0 becomes 1 and the 1s behind
\* it 0; a row of 1s gives 0.100...0 times 2^(exp + 1)
PlusOne(bits) ==
    LET last == CHOOSE z \in 1..Len(bits) :
                    bits[z] = 0 /\ \A i \in (z + 1)..Len(bits) : bits[i] = 1
    IN  [i \in 1..Len(bits) |-> IF i < last THEN bits[i] ELSE IF i = last THEN 1 ELSE 0]

RoundUp(bits, exp) ==
    IF \A i \in 1..Len(bits) : bits[i] = 1
    THEN [bits |-> <<1>> \o [i \in 1..(Len(bits) - 1) |-> 0], exp |-> exp + 1]
    ELSE [bits |-> PlusOne(bits), exp |-> exp]

\* 1 / n for an int n >= 1, as 1/(2n) times 2
FloatReciprocal(n) ==
    LET d == 2 * n
        start == Normal(1, d, 1)
        bits == DivBits(start[1], d, Precision)
        rest == DivRem(start[1], d, Precision)
    IN  IF 2 * rest > d \/ (2 * rest = d /\ bits[Precision] = 1)
        THEN RoundUp(bits, start[2])
        ELSE [bits |-> bits, exp |-> start[2]]

\* the carry into place i (0 for the carry out) when the rows a and b, of
\* one length, are added: some later place makes a carry and every place
\* between passes it on
Carry(a, b, i) ==
    IF \E j \in (i + 1)..Len(a) :
          /\ a[j] + b[j] = 2
          /\ \A m \in (i + 1)..(j - 1) : a[m] + b[m] = 1
    THEN 1 ELSE 0

\* <<carry out, bits>> of a + b
AddBits(a, b) ==
    <<Carry(a, b, 0), [i \in 1..Len(a) |-> (a[i] + b[i] + Carry(a, b, i)) % 2]>>

\* a row of bits that starts with 1, rounded to Precision bits
RoundBits(row, exp) ==
    LET keep == SubSeq(row, 1, Precision)
        rest == SubSeq(row, Precision + 1, Len(row))
        half == rest # <<>> /\ rest[1] = 1
        more == \E i \in 2..Len(rest) : rest[i] = 1
    IN  IF half /\ (more \/ keep[Precision] = 1)
        THEN RoundUp(keep, exp)
        ELSE [bits |-> keep, exp |-> exp]

\* x + y for doubles that are positive or zero
FloatAdd(x, y) ==
    IF x = FloatZero THEN y
    ELSE IF y = FloatZero THEN x
    ELSE LET big == IF x.exp >= y.exp THEN x ELSE y
             small == IF x.exp >= y.exp THEN y ELSE x
             shift == big.exp - small.exp
             zeros == [i \in 1..shift |-> 0]
             sum == AddBits(big.bits \o zeros, zeros \o small.bits)
         IN  IF sum[1] = 1
             THEN RoundBits(<<1>> \o sum[2], big.exp + 1)
             ELSE RoundBits(sum[2], big.exp)

\* fused_scores[doc_str] after the loops, for the key `key`: the
\* contributions added one after the other in the order of the scan
RECURSIVE FloatScoreDocs(_, _, _, _, _)
FloatScoreDocs(acc, key, docs, rank, kv) ==
    IF rank >= Len(docs) THEN acc
    ELSE FloatScoreDocs(IF dumps(docs[rank + 1]) = key
                        THEN FloatAdd(acc, FloatReciprocal(rank + kv))
                        ELSE acc,
                        key, docs, rank + 1, kv)

RECURSIVE FloatScoreLists(_, _, _, _, _)
FloatScoreLists(acc, key, res, i, kv) ==
    IF i > Len(res) THEN acc
    ELSE FloatScoreLists(FloatScoreDocs(acc, key, res[i], 0, kv), key, res, i + 1, kv)

float_score(key, res, kv) == FloatScoreLists(FloatZero, key, res, 1, kv)

\* x < y for doubles that are positive or zero
FloatLess(x, y) ==
    IF y = FloatZero THEN FALSE
    ELSE IF x = FloatZero THEN TRUE
    ELSE IF x.exp # y.exp THEN x.exp < y.exp
    ELSE \E i \in 1..Precision :
            /\ x.bits[i] < y.bits[i]
            /\ \A j \in 1..(i - 1) : x.bits[j] = y.bits[j]

-----------------------------------------------------------------------------
(* get_unique_union *)

RECURSIVE Flatten(_)
Flatten(lists) ==
    IF lists = <<>> THEN <<>> ELSE Head(lists) \o Flatten(Tail(lists))

\* the first sublist alone
flattened_first_list(documents) ==
    IF documents = <<>> THEN <<>>
    ELSE [i \in 1..Len(documents[1]) |-> dumps(documents[1][i])]

\* [dumps(doc) for sublist in documents for doc in sublist]
flattened_docs(documents) ==
    LET flat == Flatten(documents)
    IN  [i \in 1..Len(flat) |-> dumps(flat[i])]

Range(s) == {s[i] : i \in 1..Len(s)}

\* every sequence that lists the members of S once each
Orderings(S) ==
    {s \in [1..Cardinality(S) -> S] : \A i, j \in 1..Cardinality(S) : s[i] = s[j] => i = j}

\* list(flattened_docs): no set()
unique_docs_keep_all(flat) == {flat}

\* list(set(flattened_docs)): a set of str iterates in hash order, which
\* differs from run to run; every order is possible
unique_docs(flat) == Orderings(Range(flat))

\* [loads(doc) for doc in unique_docs]
loaded(strs) == [i \in 1..Len(strs) |-> loads(strs[i])]

\* the possible outcomes: one per order of the set
get_unique_union(documents) ==
    {IF \E i \in 1..Len(u) : loads_raises(u[i])
     THEN [err |-> "NotImplementedError", value |-> <<>>]
     ELSE [err |-> "none", value |-> loaded(u)] :
        u \in unique_docs(flattened_docs(documents))}

-----------------------------------------------------------------------------
(* The possible outcomes of the combiner f on the lists res *)

Outcomes(f, res, kv) ==
    IF f = "reciprocal_rank_fusion" THEN {reciprocal_rank_fusion(res, kv)}
    ELSE IF f = "get_unique_union" THEN get_unique_union(res)
    ELSE {[err |-> "none", value |-> res]}     \* no combiner: the lists as they are

-----------------------------------------------------------------------------
(* chain_generate_queries: prompt | llm | StrOutputParser() | split.  The  *)
(* generator's text is a sequence of characters; NL is the newline.        *)

NL == "\n"
Chars == {"q", NL}
Texts == UNION {[1..n -> Chars] : n \in 0..MaxText}

\* "\n\n"
Delimiter == <<NL, NL>>

StartsAt(text, i, sep) ==
    /\ i + Len(sep) - 1 <= Len(text)
    /\ SubSeq(text, i, i + Len(sep) - 1) = sep

\* str.split(sep): the pieces between the occurrences of sep, found from the
\* left and not overlapping; piece is the piece being read, from position i
RECURSIVE SplitFrom(_, _, _, _)
SplitFrom(text, i, piece, sep) ==
    IF i > Len(text) THEN <<piece>>
    ELSE IF StartsAt(text, i, sep)
         THEN <<piece>> \o SplitFrom(text, i + Len(sep), <<>>, sep)
         ELSE SplitFrom(text, i + 1, Append(piece, text[i]), sep)

\* the pieces that are not empty
split_without_empty(text, sep) ==
    LET NotEmpty(piece) == piece # <<>>
    IN  SelectSeq(SplitFrom(text, 1, <<>>, sep), NotEmpty)

\* the first piece alone
split_first_piece(text, sep) == <<SplitFrom(text, 1, <<>>, sep)[1]>>

split(text, sep) == SplitFrom(text, 1, <<>>, sep)

\* The output the Multi-query notebook shows for its generator: a line of
\* introduction and five questions, a blank line between every two lines
\* (each line is one character here)
NotebookText ==
    <<"intro", NL, NL, "q1", NL, NL, "q2", NL, NL, "q3", NL, NL, "q4", NL, NL, "q5">>

-----------------------------------------------------------------------------
(* The common setup: enable_langsmith and seed_sample_data.  A Python      *)
(* value is a record of its type and its value; a str is a sequence of     *)
(* characters.                                                             *)

Bool(b) == [type |-> "bool", val |-> b]
Str(chars) == [type |-> "str", val |-> chars]
\* a name that is not bound: reading it raises NameError
Undefined == [type |-> "undefined", val |-> FALSE]

\* a == b of Python, for a bool and a str: values of the two types are
\* never equal
PyEq(a, b) == IF a.type # b.type THEN FALSE ELSE a.val = b.val

\* str.lower()
lower(chars) ==
    [i \in 1..Len(chars) |->
        IF chars[i] = "Y" THEN "y" ELSE IF chars[i] = "N" THEN "n" ELSE chars[i]]

\* str.strip(): without the white space at both ends
RECURSIVE strip(_)
strip(chars) ==
    IF chars = <<>> THEN <<>>
    ELSE IF Head(chars) = " " THEN strip(Tail(chars))
    ELSE IF chars[Len(chars)] = " " THEN strip(SubSeq(chars, 1, Len(chars) - 1))
    ELSE chars

\* what a user may type at the prompt
Answers == {<<"y">>, <<"Y">>, <<" ", "y", " ">>, <<"n">>, <<"y", "e", "s">>, <<>>}

EnvKeys == {"LANGCHAIN_TRACING_V2", "LANGCHAIN_ENDPOINT", "LANGCHAIN_API_KEY"}
\* a key that is not in os.environ
Unset == "<unset>"

\* _set_env(key): getpass asks for the value of a key that is not set
_set_env(env, key) ==
    IF env[key] # Unset THEN env ELSE [env EXCEPT ![key] = "<typed>"]

\* the prompts after _set_env(key): getpass shows the key's name
PromptsAfterSetEnv(shown, env, key) ==
    IF env[key] # Unset THEN shown ELSE Append(shown, key)

\* the collection made anew at every call
add_documents_anew(coll, documents, ids) ==
    [i \in 1..Len(documents) |-> [id |-> ids[i], document |-> documents[i]]]

\* vector_store.add_documents(documents=documents, ids=uuids): an entry
\* per document; an entry of the same id is replaced
add_documents(coll, documents, ids) ==
    LET Other(e) == \A i \in 1..Len(ids) : e.id # ids[i]
    IN  SelectSeq(coll, Other)
            \o [i \in 1..Len(documents) |-> [id |-> ids[i], document |-> documents[i]]]

\* [str(uuid4()) for _ in range(len(documents))]: n ids no entry has
uuids(coll, n) == [i \in 1..n |-> Len(coll) + i]

\* split_docs, the documents the notebooks seed
SplitDocs == {<<DocA>>, <<DocA, DocB>>}

\* the n nearest entries of the collection, in the order of their
\* distance to the query: any n entries, in any order
Nearest(coll, n) ==
    LET m == IF n < Len(coll) THEN n ELSE Len(coll)
    IN  {sel \in [1..m -> 1..Len(coll)] : \A i, j \in 1..m : sel[i] = sel[j] => i = j}

NoSetup ==
    /\ answer = <<>>
    /\ prompts = <<>>
    /\ enable_langsmith = Undefined
    /\ environ = [key \in EnvKeys |-> Unset]
    /\ collection = <<>>
    /\ seeds = <<>>
    /\ retriever = 0
    /\ retrieved = <<>>

-----------------------------------------------------------------------------
(* Inputs *)

RankedLists(n) == UNION {[1..m -> Docs] : m \in 0..n}
BoundedInputs == UNION {[1..m -> RankedLists(MaxLen)] : m \in 0..MaxLists}

\* [[A, B, C], [B, C, D]]
ListsABCD == << <<DocA, DocB, DocC>>, <<DocB, DocC, DocD>> >>

\* a list with a document whose metadata json cannot write
ListsU == << <<DocA, DocU>> >>

\* the notebook's example: Query 1 gives A, B; Query 2 gives B, C; Query 3 gives D, A
ListsExample == << <<DocA, DocB>>, <<DocB, DocC>>, <<DocD, DocA>> >>

\* lists in which a retriever returned a document twice
ListsRepeated == << <<DocB, DocB, DocA>>, <<DocC, DocA>> >>
ListsTwice == << <<DocB, DocA, DocA>> >>

\* four lists in which A and D have the same positions, in mirrored order
ListsMirrored ==
    << <<DocA>>, <<DocA, DocB, DocC, DocD>>, <<DocD, DocB, DocC, DocA>>, <<DocD>> >>

Inputs ==
    BoundedInputs \cup
        {ListsABCD, ListsU, ListsExample, ListsRepeated, ListsTwice, ListsMirrored}
KValues == {-1, 0, 1, 2, DefaultK}
Combiners == {"reciprocal_rank_fusion", "get_unique_union"}

NoCalls ==
    /\ queries = <<>>
    /\ status = <<>>
    /\ returned = <<>>
    /\ completed = <<>>
    /\ order = <<>>

Init ==
    /\ fn \in Combiners
    /\ output = <<>>
    /\ error = "none"
    /\ NoCalls
    /\ NoSetup
    /\ \/ /\ entry = "call"
          /\ pc = "call"
          /\ generated = <<>>
          /\ results \in Inputs
          /\ k \in (IF fn = "reciprocal_rank_fusion" THEN KValues ELSE {DefaultK})
       \/ /\ entry = "chain"
          /\ pc = "invoke"
          /\ generated \in Texts
          /\ results = <<>>
          /\ k = DefaultK

\* chain_retrieval.invoke of the Multi-query notebook, the generator
\* answering with the text the notebook shows
InitNotebook ==
    /\ entry = "notebook"
    /\ fn = "get_unique_union"
    /\ k = DefaultK
    /\ pc = "invoke"
    /\ generated = NotebookText
    /\ results = <<>>
    /\ output = <<>>
    /\ error = "none"
    /\ NoCalls
    /\ NoSetup

\* chain_retrieval.invoke of the Re-ranking notebook: chain_generate_queries
\* | retriever.map(), no combiner
InitRerank ==
    /\ entry = "rerank"
    /\ fn = "retriever.map"
    /\ k = DefaultK
    /\ pc = "invoke"
    /\ generated \in Texts
    /\ results = <<>>
    /\ output = <<>>
    /\ error = "none"
    /\ NoCalls
    /\ NoSetup

InitParsers ==
    \/ Init /\ entry = "chain"
    \/ InitRerank

\* A notebook session at its setup cells.  enable_langsmith is unbound, or
\* bound to the bool an earlier session stored (%store); the API key may be
\* in the environment already.
InitSetup ==
    /\ entry = "setup"
    /\ pc = "setup"
    /\ fn = "reciprocal_rank_fusion"
    /\ k = DefaultK
    /\ generated = <<>>
    /\ results = <<>>
    /\ output = <<>>
    /\ error = "none"
    /\ NoCalls
    /\ answer = <<>>
    /\ prompts = <<>>
    /\ enable_langsmith \in {Undefined, Bool(TRUE), Bool(FALSE)}
    /\ \E key \in {Unset, "<preset>"} :
          environ = [e \in EnvKeys |-> IF e = "LANGCHAIN_API_KEY" THEN key ELSE Unset]
    /\ collection = <<>>
    /\ seeds = <<>>
    /\ retriever = 0
    /\ retrieved = <<>>

-----------------------------------------------------------------------------
(* Actions *)

\* The combiner returns a value or raises.
Finish(o) ==
    /\ output' = o.value
    /\ error' = o.err
    /\ pc' = IF o.err = "none" THEN "done" ELSE "raised"

\* reciprocal_rank_fusion(results, k) or get_unique_union(results), called directly
Call ==
    /\ pc = "call"
    /\ \E o \in Outcomes(fn, results, k) : Finish(o)
    /\ UNCHANGED setupVars
    /\ UNCHANGED <<entry, fn, k, generated, queries, status, returned, completed,
                   order, results>>

\* the delimiter of the notebook's parser: "\n" in the Re-ranking notebook,
\* "\n\n" in the Multi-query and RAG-fusion notebooks
Separator == IF entry = "rerank" THEN <<NL>> ELSE Delimiter

\* chain_generate_queries, then retriever.map() submits one retrieval call
\* per variant to the thread pool
Generate ==
    /\ pc = "invoke"
    /\ queries' = split(generated, Separator)
    /\ status' = [i \in 1..Len(queries') |-> "pending"]
    /\ returned' = [i \in 1..Len(queries') |-> <<>>]
    /\ pc' = "retrieve"
    /\ UNCHANGED setupVars
    /\ UNCHANGED <<entry, fn, k, generated, completed, order, results, output, error>>

\* The history of completions with variant i's call ended; it is kept for
\* the chains on the generated texts.
Completion(i) == IF entry = "chain" THEN Append(completed, i) ELSE completed

\* A pool thread takes the retrieval call of variant i.
Start(i) ==
    /\ status[i] = "pending"
    /\ status' = [status EXCEPT ![i] = "running"]
    /\ UNCHANGED setupVars
    /\ UNCHANGED <<entry, fn, k, generated, pc, queries, returned, completed, order,
                   results,
                   output, error>>

\* a retriever that returns up to two documents
ReturnTwo(i) ==
    /\ status[i] = "running"
    /\ \E docs \in RankedLists(RetrieverK + 1) :
          returned' = [returned EXCEPT ![i] = docs]
    /\ status' = [status EXCEPT ![i] = "ok"]
    /\ completed' = Completion(i)
    /\ UNCHANGED setupVars
    /\ UNCHANGED <<entry, fn, k, generated, pc, queries, order, results, output, error>>

\* The retrieval call of variant i returns its list: at most RetrieverK
\* documents, in the retriever's order.
Return(i) ==
    /\ status[i] = "running"
    /\ \E docs \in RankedLists(RetrieverK) :
          returned' = [returned EXCEPT ![i] = docs]
    /\ status' = [status EXCEPT ![i] = "ok"]
    /\ completed' = Completion(i)
    /\ UNCHANGED setupVars
    /\ UNCHANGED <<entry, fn, k, generated, pc, queries, order, results, output, error>>

\* The retrieval call of variant i raises (a timeout, an unreachable store).
Fail(i) ==
    /\ status[i] = "running"
    /\ status' = [status EXCEPT ![i] = "failed"]
    /\ completed' = Completion(i)
    /\ UNCHANGED setupVars
    /\ UNCHANGED <<entry, fn, k, generated, pc, queries, returned, order, results,
                   output, error>>

Finished(i) == status[i] \in {"ok", "failed"}

\* the results taken as the calls complete
CollectableAsCompleted ==
    {i \in 1..Len(queries) : Finished(i) /\ i \notin Range(order)}

\* retriever.map() yields the calls' results in the order of its inputs:
\* the next one is that of the first variant not collected yet
Collectable == {i \in {Len(order) + 1} : i <= Len(queries) /\ Finished(i)}

\* retriever.map() takes the next result.  A call that raised raises here,
\* out of the chain; the calls no thread has taken yet are cancelled.
Collect ==
    /\ pc = "retrieve"
    /\ \E i \in Collectable :
          /\ order' = Append(order, i)
          /\ IF status[i] = "ok"
             THEN /\ results' = Append(results, returned[i])
                  /\ UNCHANGED <<pc, error, status>>
             ELSE /\ pc' = "raised"
                  /\ error' = "RetrievalError"
                  /\ status' = [j \in 1..Len(status) |->
                                   IF status[j] = "pending" THEN "cancelled"
                                   ELSE status[j]]
                  /\ UNCHANGED results
    /\ UNCHANGED setupVars
    /\ UNCHANGED <<entry, fn, k, generated, queries, returned, completed, output>>

\* one list at least is collected
AnyCollected == Len(order) >= 1

\* retriever.map() has returned: the list of every variant is collected
AllCollected == Len(order) = Len(queries)

\* Every list is collected: the chain's last step is the combiner, called
\* with the lists alone (k keeps its default).
Fuse ==
    /\ pc = "retrieve"
    /\ AllCollected
    /\ \E o \in Outcomes(fn, results, k) : Finish(o)
    /\ UNCHANGED setupVars
    /\ UNCHANGED <<entry, fn, k, generated, queries, status, returned, completed,
                   order, results>>

NextChain ==
    \/ Generate
    \/ \E i \in 1..Len(status) : Start(i)
    \/ \E i \in 1..Len(status) : Return(i)
    \/ \E i \in 1..Len(status) : Fail(i)
    \/ Collect
    \/ Fuse

Next ==
    \/ Call
    \/ NextChain

Spec == Init /\ [][Next]_vars

\* the Multi-query notebook's run
SpecNotebook == InitNotebook /\ [][NextChain]_vars

\* the chains of the three notebooks that parse query variants
SpecParsers == InitParsers /\ [][NextChain]_vars

-----------------------------------------------------------------------------
(* Actions of the common setup *)

\* the environment after "if (enable_langsmith=='y'): ... else: ..."
LangsmithEnviron(flag, env) ==
    IF PyEq(flag, Str(<<"y">>))
    THEN _set_env([env EXCEPT !["LANGCHAIN_TRACING_V2"] = "true",
                              !["LANGCHAIN_ENDPOINT"] = "https://api.smith.langchain.com"],
                  "LANGCHAIN_API_KEY")
    ELSE [env EXCEPT !["LANGCHAIN_TRACING_V2"] = "false"]

\* ... and the prompts shown
LangsmithPrompts(flag, shown, env) ==
    IF PyEq(flag, Str(<<"y">>))
    THEN PromptsAfterSetEnv(shown, env, "LANGCHAIN_API_KEY")
    ELSE shown

\* The LangSmith cell.  The user is asked when enable_langsmith is unbound.
EnableLangsmith ==
    /\ pc = "setup"
    /\ IF enable_langsmith = Undefined
       THEN \E a \in Answers :
               LET flag == Bool(PyEq(Str(strip(lower(a))), Str(<<"y">>)))
                   shown == Append(prompts, "Enabled Langsmith tracing? (y/n): ")
               IN  /\ answer' = a
                   /\ enable_langsmith' = flag
                   /\ environ' = LangsmithEnviron(flag, environ)
                   /\ prompts' = LangsmithPrompts(flag, shown, environ)
       ELSE /\ environ' = LangsmithEnviron(enable_langsmith, environ)
            /\ prompts' = LangsmithPrompts(enable_langsmith, prompts, environ)
            /\ UNCHANGED <<answer, enable_langsmith>>
    /\ pc' = "seed"
    /\ UNCHANGED <<entry, collection, seeds, retriever, retrieved>>
    /\ UNCHANGED chainVars

\* retriever = seed_sample_data(documents, k)
SeedSampleData ==
    /\ pc = "seed"
    /\ \E documents \in SplitDocs, kk \in 1..MaxK :
          /\ Len(collection) + Len(documents) <= MaxEntries
          /\ collection' = add_documents(collection, documents,
                                         uuids(collection, Len(documents)))
          /\ seeds' = Append(seeds, documents)
          /\ retriever' = kk
    /\ UNCHANGED <<entry, pc, answer, prompts, enable_langsmith, environ, retrieved>>
    /\ UNCHANGED chainVars

\* retriever.invoke(query): the documents of the nearest entries
Retrieve ==
    /\ pc = "seed"
    /\ retriever > 0
    /\ \E sel \in Nearest(collection, retriever) :
          retrieved' = [i \in 1..Len(sel) |-> collection[sel[i]].document]
    /\ UNCHANGED <<entry, pc, answer, prompts, enable_langsmith, environ, collection,
                   seeds, retriever>>
    /\ UNCHANGED chainVars

NextSetup ==
    \/ EnableLangsmith
    \/ SeedSampleData
    \/ Retrieve

SpecSetup == InitSetup /\ [][NextSetup]_vars

-----------------------------------------------------------------------------
(* What the claims speak of *)

\* the documents of the input lists, in scanning order (list 0 first, each
\* list from position 0), and their identity keys
InputSeq == Flatten(results)
InputKeys == {dumps(InputSeq[i]) : i \in 1..Len(InputSeq)}

FusionReturned == pc = "done" /\ fn = "reciprocal_rank_fusion"
UnionReturned == pc = "done" /\ fn = "get_unique_union"

\* the i-th pair of a fusion result
OutDoc(i) == output[i][1]
OutScore(i) == output[i][2]

\* where the document with identity key `key` is first met in the input
FirstSeen(key) ==
    CHOOSE i \in 1..Len(InputSeq) :
        /\ dumps(InputSeq[i]) = key
        /\ \A j \in 1..(i - 1) : dumps(InputSeq[j]) # key

\* the zero-based positions of the document with identity key `key` in docs
Positions(docs, key) == {r \in 0..(Len(docs) - 1) : dumps(docs[r + 1]) = key}

Min(S) == CHOOSE x \in S : \A y \in S : x <= y

\* the sum of 1/(r + kv) over the positions r of S
RECURSIVE SumReciprocals(_, _)
SumReciprocals(S, kv) ==
    IF S = {} THEN Zero
    ELSE LET r == Min(S)
         IN  RatAdd(Rat(1, r + kv), SumReciprocals(S \ {r}, kv))

-----------------------------------------------------------------------------
(* C1: the output of reciprocal_rank_fusion is a permutation of the set of *)
(* distinct documents of its input: every identity key of the input is the *)
(* key of exactly one output pair, and no other key occurs.                *)
C1_FusionIsPermutation ==
    FusionReturned =>
        /\ {dumps(OutDoc(i)) : i \in 1..Len(output)} = InputKeys
        /\ \A i, j \in 1..Len(output) :
              dumps(OutDoc(i)) = dumps(OutDoc(j)) => i = j

\* reached: a fusion of lists that overlap, with more than one distinct document
C1_Witness ==
    /\ FusionReturned
    /\ Len(results) >= 2
    /\ Len(output) >= 2
    /\ Len(InputSeq) > Len(output)

(* C2: for k > 0 the fused scores of the returned sequence are             *)
(* non-increasing from the first pair to the last.                         *)
C2_ScoresNonIncreasing ==
    (FusionReturned /\ k > 0) =>
        \A i \in 1..(Len(output) - 1) : ~RatLess(OutScore(i), OutScore(i + 1))

\* reached: the sort moved a later document to the front
C2_Witness ==
    /\ FusionReturned
    /\ k > 0
    /\ Len(output) >= 2
    /\ RatLess(OutScore(Len(output)), OutScore(1))
    /\ OutDoc(1) # InputSeq[1]

\* the sum of the contributions of the lists, one per position at which the
\* document occurs
RECURSIVE ScorePerOccurrence(_, _, _)
ScorePerOccurrence(key, res, kv) ==
    IF res = <<>> THEN Zero
    ELSE RatAdd(SumReciprocals(Positions(Head(res), key), kv),
                ScorePerOccurrence(key, Tail(res), kv))

\* the sum of one contribution for each list in which the document appears,
\* that of its position in the list (the first, should there be several)
RECURSIVE ScorePerList(_, _, _)
ScorePerList(key, res, kv) ==
    IF res = <<>> THEN Zero
    ELSE LET at == Positions(Head(res), key)
         IN  RatAdd(IF at = {} THEN Zero ELSE Rat(1, Min(at) + kv),
                    ScorePerList(key, Tail(res), kv))

(* C3, as stated: for k > 0 the fused score of a document is the sum, over *)
(* the lists in which it appears, of 1/(r + k), r its position in that     *)
(* list; a list without it contributes 0.  One term for each list.         *)
C3_ScoreIsSumOverLists ==
    (FusionReturned /\ k > 0) =>
        \A i \in 1..Len(output) :
            OutScore(i) = ScorePerList(dumps(OutDoc(i)), results, k)

(* C3, amended: for k > 0 the fused score of a document is the sum, over   *)
(* the lists in which it appears and every position r at which it occurs   *)
(* in them, of 1/(r + k); a list without it contributes 0.                 *)
C3_ScoreIsSumOverOccurrences ==
    (FusionReturned /\ k > 0) =>
        \A i \in 1..Len(output) :
            OutScore(i) = ScorePerOccurrence(dumps(OutDoc(i)), results, k)

\* reached: a document found in every list, twice in one of them, next to a
\* document that some list lacks
C3_Witness ==
    /\ FusionReturned
    /\ k > 0
    /\ Len(results) >= 2
    /\ \E i, j \in 1..Len(output) :
          /\ \A l \in 1..Len(results) : Positions(results[l], dumps(OutDoc(i))) # {}
          /\ \E l \in 1..Len(results) :
                Cardinality(Positions(results[l], dumps(OutDoc(i)))) >= 2
          /\ \E l \in 1..Len(results) : Positions(results[l], dumps(OutDoc(j))) = {}

(* C4: documents with equal fused scores are output in the order in which  *)
(* they were first met while scanning the input lists in order.            *)
C4_TiesInFirstSeenOrder ==
    FusionReturned =>
        \A i, j \in 1..Len(output) :
            (i < j /\ OutScore(i) = OutScore(j)) =>
                FirstSeen(dumps(OutDoc(i))) < FirstSeen(dumps(OutDoc(j)))

\* reached: two documents tie behind a document that was met after the
\* first of them
C4_Witness ==
    /\ FusionReturned
    /\ Len(output) = 3
    /\ OutScore(2) = OutScore(3)
    /\ RatLess(OutScore(2), OutScore(1))
    /\ FirstSeen(dumps(OutDoc(1))) > FirstSeen(dumps(OutDoc(2)))

(* C5: reciprocal_rank_fusion called with k <= 0 fails with an             *)
(* InvalidConfigError: it never returns a result and never fails with      *)
(* another error.                                                          *)
C5_NonPositiveKRejected ==
    (entry = "call" /\ fn = "reciprocal_rank_fusion" /\ k <= 0 /\ pc # "call") =>
        (pc = "raised" /\ error = "InvalidConfigError")

\* the lists of the variants whose calls succeeded, in variant order
RECURSIVE ListsOfSucceeded(_)
ListsOfSucceeded(i) ==
    IF i > Len(status) THEN <<>>
    ELSE (IF status[i] = "ok" THEN <<returned[i]>> ELSE <<>>)
            \o ListsOfSucceeded(i + 1)

(* C6: in the retrieval chain the failure of the retrieval call of one     *)
(* variant does not make the chain raise when the call of another variant  *)
(* succeeded: the chain completes, and what it combines are the lists of   *)
(* the variants whose calls succeeded.                                     *)
C6_FailedCallTolerated ==
    entry = "chain" =>
        /\ (\E i \in 1..Len(status) : status[i] = "ok") => pc # "raised"
        /\ pc = "done" => results = ListsOfSucceeded(1)

(* C7: whatever the order in which the retrieval calls complete, the lists *)
(* handed to the combiner are in variant-submission order (list i is the   *)
(* list returned for variant i), and so is the fused ordering, ties        *)
(* included.                                                               *)
C7_ListsInSubmissionOrder ==
    (entry = "chain" /\ pc = "done") =>
        /\ Len(results) = Len(queries)
        /\ \A i \in 1..Len(queries) : results[i] = returned[i]
        /\ fn = "reciprocal_rank_fusion" =>
              \A i, j \in 1..Len(output) :
                  (i < j /\ OutScore(i) = OutScore(j)) =>
                      \E v \in 1..Len(queries) :
                          /\ OutDoc(i) \in Range(returned[v])
                          /\ \A w \in 1..v : OutDoc(j) \notin Range(returned[w])

\* reached: the call of a later variant completed first, the two lists hold
\* different documents, and the fusion put the earlier variant's first
C7_Witness ==
    /\ entry = "chain"
    /\ FusionReturned
    /\ \E a, b \in 1..Len(completed) : a < b /\ completed[a] > completed[b]
    /\ Len(output) >= 2
    /\ OutScore(1) = OutScore(2)
    /\ \E v, w \in 1..Len(queries) :
          /\ v < w
          /\ returned[v] = <<OutDoc(1)>>
          /\ returned[w] = <<OutDoc(2)>>
          /\ \E a, b \in 1..Len(completed) :
                a < b /\ completed[a] = w /\ completed[b] = v

(* C8: two documents with the same content and the same metadata key/value *)
(* pairs are one document for the combiners, whatever the insertion order  *)
(* of the metadata keys, and two documents that differ in content or in a  *)
(* metadata key or value are two documents.                                *)
C8_IdentityIgnoresKeyOrder ==
    pc = "done" =>
        /\ \A i, j \in 1..Len(InputSeq) :
              SameDocument(InputSeq[i], InputSeq[j])
                  <=> dumps(InputSeq[i]) = dumps(InputSeq[j])
        /\ \A i, j \in 1..Len(output) :
              LET di == IF fn = "get_unique_union" THEN output[i] ELSE OutDoc(i)
                  dj == IF fn = "get_unique_union" THEN output[j] ELSE OutDoc(j)
              IN  SameDocument(di, dj) => i = j

(* C9: the number of documents get_unique_union returns is the number of   *)
(* distinct identity keys among the items of the input lists, and at most  *)
(* the sum of the lengths of the lists.                                    *)
C9_UnionSizeIsDistinctKeys ==
    UnionReturned =>
        /\ Len(output) = Cardinality(InputKeys)
        /\ Len(output) <= Len(InputSeq)

\* reached: a union of lists that share a document
C9_Witness ==
    /\ UnionReturned
    /\ Len(results) >= 2
    /\ Len(output) >= 2
    /\ Len(output) < Len(InputSeq)

(* C10: the collection get_unique_union returns, as a set, is the set of   *)
(* the distinct documents of the input lists, one instance for each        *)
(* identity key, with the content (and metadata) of the key's first        *)
(* occurrence.                                                             *)
C10_UnionIsSetOfInputDocuments ==
    UnionReturned =>
        /\ Range(output) = Range(InputSeq)
        /\ \A key \in InputKeys :
              \E i \in 1..Len(output) :
                  /\ output[i] = InputSeq[FirstSeen(key)]
                  /\ \A j \in 1..Len(output) : dumps(output[j]) = key => j = i

\* reached: [[doc1, doc2], [doc2, doc3]] gives the three documents
C10_Witness ==
    /\ UnionReturned
    /\ Len(results) = 2
    /\ Len(results[1]) = 2
    /\ Len(results[2]) = 2
    /\ results[1][2] = results[2][1]
    /\ Cardinality(Range(InputSeq)) = 3
    /\ Len(output) = 3

(* C11: for the lists [[A, B, C], [B, C, D]] and k = 60 the fusion gives   *)
(* A = 1/60, B = 1/61 + 1/60 = 121/3660, C = 1/62 + 1/61 = 123/3782 and    *)
(* D = 1/62, and returns the documents in the order [B, C, A, D].          *)
C11_ScenarioABCD ==
    (entry = "call" /\ fn = "reciprocal_rank_fusion" /\ results = ListsABCD
        /\ k = 60 /\ pc # "call") =>
        /\ pc = "done"
        /\ output = << <<DocB, <<121, 3660>> >>, <<DocC, <<123, 3782>> >>,
                       <<DocA, <<1, 60>> >>, <<DocD, <<1, 62>> >> >>

\* reached: the fusion of these lists with k = 60 has returned four pairs
C11_Witness ==
    /\ entry = "call"
    /\ FusionReturned
    /\ results = ListsABCD
    /\ k = 60
    /\ Len(output) = 4

\* the combiner was called and has returned or raised
CombinerRan ==
    \/ entry = "call" /\ pc # "call"
    \/ entry = "chain" /\ pc \in {"done", "raised"} /\ error # "RetrievalError"

(* C12: reciprocal_rank_fusion and get_unique_union called with no lists,  *)
(* or with lists that are all empty, return an empty result and raise no   *)
(* error.                                                                  *)
C12_EmptyInputEmptyResult ==
    (CombinerRan /\ InputSeq = <<>>) =>
        /\ pc = "done"
        /\ error = "none"
        /\ output = <<>>

\* reached: a fusion of two empty lists has returned
C12_Witness ==
    /\ FusionReturned
    /\ entry = "call"
    /\ Len(results) = 2
    /\ InputSeq = <<>>
    /\ output = <<>>

\* the input is N >= 1 copies of one list
CopiesOfOneList ==
    /\ Len(results) >= 1
    /\ \A i \in 1..Len(results) : results[i] = results[1]

Ceiling == Rat(Len(results), k)

\* the document with identity key `key` is at position 0 of every list
AtHeadOfEveryList(key) ==
    /\ Len(results) >= 1
    /\ \A i \in 1..Len(results) : 0 \in Positions(results[i], key)

\* ... and at no other position
AtHeadOnly(key) ==
    /\ Len(results) >= 1
    /\ \A i \in 1..Len(results) : Positions(results[i], key) = {0}

\* no list holds the same document twice
NoRepeatWithinList ==
    \A i \in 1..Len(results) : \A a, b \in 1..Len(results[i]) :
        dumps(results[i][a]) = dumps(results[i][b]) => a = b

Issued(i) == status[i] \in {"running", "ok", "failed"}

(* C16: when the retrieval calls of all variants fail, the chain fails     *)
(* with a RetrievalExhaustedError surfaced to the caller; it returns no    *)
(* empty or partial fused result.                                          *)
C16_AllFailedExhausted ==
    (entry = "chain" /\ pc \in {"done", "raised"}
        /\ \A i \in 1..Len(status) : status[i] = "failed") =>
        /\ pc = "raised"
        /\ error = "RetrievalExhaustedError"

\* a piece that holds a query: some character that is not a newline
Usable(piece) == \E i \in 1..Len(piece) : piece[i] # NL

(* C17: when the generator's text yields no usable query variant (an empty *)
(* text, or only empty pieces after the split), the chain issues no        *)
(* retrieval call and does not complete: an error is surfaced instead.     *)
C17_NoVariantNoRetrieval ==
    (entry = "chain" /\ pc # "invoke"
        /\ \A i \in 1..Len(queries) : ~Usable(queries[i])) =>
        /\ \A i \in 1..Len(status) : ~Issued(i)
        /\ pc # "done"

\* the number of variants the chain's prompt asks for
Requested(f) ==
    IF f = "reciprocal_rank_fusion" THEN RequestedFusion ELSE RequestedUnion

\* pieces[1] + sep + pieces[2] + ... (one piece at least)
RECURSIVE Join(_, _)
Join(pieces, sep) ==
    IF Len(pieces) = 1 THEN pieces[1]
    ELSE pieces[1] \o sep \o Join(Tail(pieces), sep)

\* the generator returned at least one and fewer than the requested number
\* of variants, every piece of its text a query
FewerVariants ==
    /\ Len(queries) >= 1
    /\ Len(queries) < Requested(fn)
    /\ \A i \in 1..Len(queries) : Usable(queries[i])

HasUnserializable(doc) ==
    \E i \in 1..Len(doc.metadata) : doc.metadata[i][2] = Unserializable

(* C19: when a document's metadata holds a value that cannot be            *)
(* serialized, get_unique_union and reciprocal_rank_fusion fail with a     *)
(* SerializationError that reaches the caller, and return no result.       *)
C19_UnserializableRejected ==
    (entry = "call" /\ pc # "call" /\ k > 0
        /\ \E i \in 1..Len(InputSeq) : HasUnserializable(InputSeq[i])) =>
        /\ pc = "raised"
        /\ error = "SerializationError"

(* C20: for the generator output the Multi-query notebook shows (a line of *)
(* introduction and five questions, separated by blank lines) the chain    *)
(* issues exactly 5 queries to the vector store, one per question, and     *)
(* unions their results.                                                   *)
C20_FiveQueriesForNotebookText ==
    (entry = "notebook" /\ pc = "done") =>
        /\ queries = << <<"q1">>, <<"q2">>, <<"q3">>, <<"q4">>, <<"q5">> >>
        /\ Cardinality({i \in 1..Len(status) : Issued(i)}) = 5
        /\ Len(results) = 5

\* the lists in which the document with identity key `key` appears
ListsWith(key) == {i \in 1..Len(results) : Positions(results[i], key) # {}}

\* the number of its occurrences in the whole input
Occurrences(key) == Cardinality({i \in 1..Len(InputSeq) : dumps(InputSeq[i]) = key})

(* C21 as stated: with the default k = 60, for every input, a document     *)
(* that appears in two or more lists is placed ahead of every document     *)
(* that appears in only one list.                                          *)
C21_MultiListAheadOfSingleList ==
    (FusionReturned /\ k = DefaultK) =>
        \A i, j \in 1..Len(output) :
            (/\ Cardinality(ListsWith(dumps(OutDoc(i)))) >= 2
             /\ Cardinality(ListsWith(dumps(OutDoc(j)))) = 1) => i < j

(* C21, amended: with the default k = 60 and no list of more than 60       *)
(* items, a document that appears in two or more lists is placed ahead of  *)
(* every document that occurs exactly once in the whole input.             *)
C21_MultiListAheadOfSingleOccurrence ==
    (FusionReturned /\ k = DefaultK
        /\ \A n \in 1..Len(results) : Len(results[n]) <= DefaultK) =>
        \A i, j \in 1..Len(output) :
            (/\ Cardinality(ListsWith(dumps(OutDoc(i)))) >= 2
             /\ Occurrences(dumps(OutDoc(j))) = 1) => i < j

\* reached: the notebook's example, A and B ahead of C and D
C21_Witness ==
    /\ FusionReturned
    /\ k = DefaultK
    /\ results = ListsExample
    /\ Len(output) = 4
    /\ {OutDoc(1), OutDoc(2)} = {DocA, DocB}
    /\ {OutDoc(3), OutDoc(4)} = {DocC, DocD}

\* this step is a step of variant i's retrieval call
CallStep(i) == pc' = pc /\ status'[i] # status[i]

(* C22: in every execution of the retrieval chain the combiner starts only *)
(* after the retrieval call of every variant has returned, and a step of   *)
(* one retrieval call writes nothing that another call or the combiner     *)
(* reads or writes: not another call's state or list, not the combiner's   *)
(* input or output.                                                        *)
C22_FusionAfterAllCalls ==
    [][entry = "chain" =>
        /\ (pc = "retrieve" /\ pc' # "retrieve" /\ error' # "RetrievalError") =>
              \A i \in 1..Len(status) : status[i] = "ok"
        /\ \A i \in 1..Len(status) :
              CallStep(i) =>
                  /\ \A j \in 1..Len(status) \ {i} :
                        status'[j] = status[j] /\ returned'[j] = returned[j]
                  /\ results' = results
                  /\ output' = output]_vars

\* reached: three variants, the last call returned first, the fusion done
C22_Witness ==
    /\ entry = "chain"
    /\ pc = "done"
    /\ Len(queries) = 3
    /\ completed[1] = 3
    /\ \A i \in 1..3 : status[i] = "ok"
    /\ output # <<>>

(* C23: LangSmith tracing follows the user's answer: when the user answers *)
(* 'y' at the prompt, LANGCHAIN_TRACING_V2 is 'true', the endpoint is set  *)
(* and the API key is asked for (or was set before); for any other answer  *)
(* LANGCHAIN_TRACING_V2 is 'false'.                                        *)
C23_TracingFollowsAnswer ==
    (entry = "setup" /\ pc # "setup" /\ prompts # <<>>) =>
        IF strip(lower(answer)) = <<"y">>
        THEN /\ environ["LANGCHAIN_TRACING_V2"] = "true"
             /\ environ["LANGCHAIN_ENDPOINT"] # Unset
             /\ environ["LANGCHAIN_API_KEY"] # Unset
        ELSE environ["LANGCHAIN_TRACING_V2"] = "false"

\* the entries of the collection that hold doc
EntriesOf(doc) == {i \in 1..Len(collection) : collection[i].document = doc}

\* the places of doc in the documents of the calls so far
SeededAt(doc) ==
    {c \in (1..Len(seeds)) \X (1..MaxEntries) :
        c[2] <= Len(seeds[c[1]]) /\ seeds[c[1]][c[2]] = doc}

(* C30: every call of seed_sample_data adds one entry per input document,  *)
(* under an id no other entry has, and removes nothing: the collection     *)
(* holds, for each document, as many entries as the calls so far were      *)
(* given it (n entries after n calls with the same documents), and a       *)
(* retrieval returns a document at most as often as the collection holds   *)
(* entries of it.                                                          *)
C30_SeedingAddsEntries ==
    entry = "setup" =>
        /\ \A i, j \in 1..Len(collection) : collection[i].id = collection[j].id => i = j
        /\ \A doc \in Docs : Cardinality(EntriesOf(doc)) = Cardinality(SeededAt(doc))
        /\ \A doc \in Docs :
              Cardinality({i \in 1..Len(retrieved) : retrieved[i] = doc})
                  <= Cardinality(EntriesOf(doc))

\* reached: two calls with the same documents, two entries for DocA, and a
\* retrieval with k = 2 that returned DocA twice
C30_Witness ==
    /\ entry = "setup"
    /\ Len(seeds) = 2
    /\ seeds[1] = seeds[2]
    /\ Cardinality(EntriesOf(DocA)) = 2
    /\ retriever = 2
    /\ retrieved = <<DocA, DocA>>

\* the documents of a fusion result, its score for doc (0 if it has none)
\* and the place of doc in it
DocsOf(out) == {out[i][1] : i \in 1..Len(out)}
ScoreIn(out, doc) ==
    IF doc \in DocsOf(out)
    THEN (CHOOSE p \in Range(out) : p[1] = doc)[2]
    ELSE Zero
PlaceIn(out, doc) == CHOOSE i \in 1..Len(out) : out[i][1] = doc

(* C24: for every input, the set of documents in the output of             *)
(* reciprocal_rank_fusion is the set of documents in the output of         *)
(* get_unique_union on the same lists.                                     *)
C24_FusionAndUnionSameDocuments ==
    /\ FusionReturned =>
          \A o \in get_unique_union(results) :
              o.err = "none" /\ Range(o.value) = DocsOf(output)
    /\ UnionReturned =>
          LET o == reciprocal_rank_fusion(results, DefaultK)
          IN  o.err = "none" /\ DocsOf(o.value) = Range(output)

\* reached: a fusion of two overlapping lists with two distinct documents
C24_Witness ==
    /\ FusionReturned
    /\ Len(results) = 2
    /\ Len(InputSeq) = 4
    /\ Cardinality(DocsOf(output)) = 2

\* the input lists in the order p
Permuted(p) == [i \in 1..Len(results) |-> results[p[i]]]

\* where the document with identity key `key` is first met in the lists res
FirstSeenIn(res, key) ==
    LET flat == Flatten(res)
    IN  CHOOSE i \in 1..Len(flat) :
            /\ dumps(flat[i]) = key
            /\ \A j \in 1..(i - 1) : dumps(flat[j]) # key

\* x is placed ahead of y by the sort on the doubles: a greater score, or
\* an equal score and met earlier
FloatAhead(x, y, res, kv) ==
    \/ FloatLess(float_score(y, res, kv), float_score(x, res, kv))
    \/ /\ float_score(y, res, kv) = float_score(x, res, kv)
       /\ FirstSeenIn(res, x) < FirstSeenIn(res, y)

(* C25 as stated, for the scores the code computes (doubles) and inputs of *)
(* four or more lists: permuting the input lists leaves every document's   *)
(* fused score unchanged, and the output order changes only among          *)
(* documents whose fused scores are equal.                                 *)
C25_FloatScoresAndOrderKept ==
    (FusionReturned /\ k > 0 /\ Len(results) >= 4) =>
        \A p \in Orderings(1..Len(results)) :
            /\ \A key \in InputKeys :
                  float_score(key, Permuted(p), k) = float_score(key, results, k)
            /\ \A x, y \in InputKeys :
                  (/\ FloatAhead(x, y, results, k)
                   /\ float_score(x, results, k) # float_score(y, results, k)) =>
                      FloatAhead(x, y, Permuted(p), k)

(* C25, amended: for every input and every k > 0, permuting the input      *)
(* lists leaves the exact sum of every document's contributions            *)
(* unchanged, and the order by exact score changes only among documents    *)
(* whose exact scores are equal.                                           *)
C25_ListOrderIrrelevant ==
    (FusionReturned /\ k > 0) =>
        \A p \in Orderings(1..Len(results)) :
            LET other == reciprocal_rank_fusion(Permuted(p), k).value
            IN  /\ DocsOf(other) = DocsOf(output)
                /\ Len(other) = Len(output)
                /\ \A i \in 1..Len(output) : ScoreIn(other, OutDoc(i)) = OutScore(i)
                /\ \A i, j \in 1..Len(output) :
                      (i < j /\ OutScore(i) # OutScore(j)) =>
                          PlaceIn(other, OutDoc(i)) < PlaceIn(other, OutDoc(j))

\* reached: two different lists; three documents, the first ahead of two
\* that tie, and the two that tie change places when the lists are swapped
C25_Witness ==
    /\ FusionReturned
    /\ k > 0
    /\ Len(results) = 2
    /\ results[1] # results[2]
    /\ Len(output) = 3
    /\ OutScore(1) # OutScore(2)
    /\ OutScore(2) = OutScore(3)
    /\ reciprocal_rank_fusion(<<results[2], results[1]>>, k).value
          = <<output[1], output[3], output[2]>>

\* the fusion of the input without its last list
BeforeAppend == reciprocal_rank_fusion(SubSeq(results, 1, Len(results) - 1), k).value

\* the documents of the last list
Appended == Range(results[Len(results)])

(* C26: for every input and every k > 0, appending one more ranked list    *)
(* strictly increases the fused score of every document in the appended    *)
(* list, leaves the score of every other document unchanged, and never     *)
(* moves a document of the appended list behind a document that is not in  *)
(* it and that it preceded before.                                         *)
C26_AppendedListRaisesItsDocuments ==
    (FusionReturned /\ k > 0 /\ Len(results) >= 1) =>
        /\ \A d \in Appended :
              d \in DocsOf(output) /\ RatLess(ScoreIn(BeforeAppend, d), ScoreIn(output, d))
        /\ \A d \in DocsOf(BeforeAppend) \ Appended :
              d \in DocsOf(output) /\ ScoreIn(output, d) = ScoreIn(BeforeAppend, d)
        /\ \A x \in Appended \cap DocsOf(BeforeAppend) :
              \A y \in DocsOf(BeforeAppend) \ Appended :
                  PlaceIn(BeforeAppend, x) < PlaceIn(BeforeAppend, y) =>
                      PlaceIn(output, x) < PlaceIn(output, y)

\* reached: the appended list holds a document that was behind another one
\* and is ahead of it now, and a document that is new
C26_Witness ==
    /\ FusionReturned
    /\ k > 0
    /\ Len(results) = 2
    /\ Len(BeforeAppend) = 2
    /\ Len(output) = 3
    /\ BeforeAppend[2][1] \in Appended
    /\ BeforeAppend[1][1] \notin Appended
    /\ OutDoc(1) = BeforeAppend[2][1]

\* the document with identity key `key` occurs more than once in one list
RepeatedInAList(key) ==
    \E n \in 1..Len(results) : Cardinality(Positions(results[n], key)) >= 2

(* C27: a document that occurs more than once inside one input list gets   *)
(* one contribution 1/(r + k) for each position r at which it occurs, and  *)
(* appears once in the output (k > 0).                                     *)
C27_RepeatedDocumentScoredPerOccurrence ==
    (FusionReturned /\ k > 0) =>
        \A key \in {q \in InputKeys : RepeatedInAList(q)} :
            LET at == {i \in 1..Len(output) : dumps(OutDoc(i)) = key}
            IN  /\ Cardinality(at) = 1
                /\ \A i \in at : OutScore(i) = ScorePerOccurrence(key, results, k)

\* reached: for [[B, A, A]] and k = 60, A (positions 1 and 2) has
\* 1/61 + 1/62 and is ahead of B, once at position 0 with 1/60
C27_Witness ==
    /\ FusionReturned
    /\ k = DefaultK
    /\ results = ListsTwice
    /\ output = << <<DocA, <<123, 3782>> >>, <<DocB, <<1, 60>> >> >>

\* str.count(sep): the occurrences of sep in text from position i on, found
\* from the left and not overlapping
RECURSIVE CountFrom(_, _, _)
CountFrom(text, i, sep) ==
    IF i + Len(sep) - 1 > Len(text) THEN 0
    ELSE IF SubSeq(text, i, i + Len(sep) - 1) = sep
         THEN 1 + CountFrom(text, i + Len(sep), sep)
         ELSE CountFrom(text, i + 1, sep)

Frequency(key) == Cardinality(ListsWith(key))

=============================================================================
